---- MODULE Spec2Model ----
(***************************************************************************)
(* A model of the two Preact components of tidy-utils:                     *)
(*   Dropdown      (src/src/Dropdown.tsx)                                  *)
(*   NumericInput  (src/src/NumericInput.tsx)                              *)
(*                                                                         *)
(* Each component is a function of its props and of one useState cell.     *)
(* A DOM event runs one handler; the handler's closure holds the values of *)
(* the render that created it; after the dispatch the framework renders    *)
(* again, so the next event sees handlers of the new render.               *)
(*                                                                         *)
(* An optional value (a prop that may be null or undefined) is a sequence  *)
(* of length 0 (absent) or 1 (present).  A text is a sequence of           *)
(* one-character strings.                                                  *)
(***************************************************************************)
EXTENDS Integers, Sequences, FiniteSets, TLC

VARIABLES
    \* ---- Dropdown ----
    props,          \* the props of the Dropdown: options, selectedOption, placeholder, renderOption
    isOpen,         \* the useState cell of Dropdown
    view,           \* the output of the last render of Dropdown (and its closure's isOpen)
    toggleFocused,  \* whether the toggle button is the document's focused element
    pc,             \* "idle", or "onSelect" while the caller's onSelect callback runs
    defaultPrevented, \* the flag of the event being dispatched
    evCalls,        \* the onSelect invocations of the current / most recent event, in order
    lastEvent,      \* the most recent user event on the Dropdown
    nSelect,        \* the number of onSelect invocations so far
    onlyToggles,    \* every user event so far was an activation of the toggle
    \* ---- NumericInput ----
    inProps,        \* the props of the NumericInput: value, onBlur (supplied or not)
    inputValue,     \* the useState cell of NumericInput
    inView,         \* the output of the last render of NumericInput (and its closure's inputValue)
    inputFocused,   \* whether the input is the document's focused element
    inCalls,        \* the callback invocations of the most recent event, in order
    inLast,         \* the most recent user event on the NumericInput
    \* ---- several instances on one page ----
    mOpen,          \* the useState cells of the Dropdown instances
    mText,          \* the useState cells of the NumericInput instances
    mFocus,         \* the document's focused element: none, or one instance's toggle or input
    mCalls,         \* the callback invocations of the most recent event, each with the
                    \* instance whose props supplied the callback
    mLast           \* the most recent event and the instance it was on

dvars == <<props, isOpen, view, toggleFocused, pc, defaultPrevented, evCalls,
           lastEvent, nSelect, onlyToggles>>
nvars == <<inProps, inputValue, inView, inputFocused, inCalls, inLast>>
mvars == <<mOpen, mText, mFocus, mCalls, mLast>>
vars == <<dvars, nvars, mvars>>

-----------------------------------------------------------------------------
(* Bounds *)

\* the longest options list a Dropdown is given
MaxOptions == 2
\* the number of option presses (onSelect invocations) in one behaviour
MaxCalls == 2
\* the longest text an input event carries
MaxLen == 3

-----------------------------------------------------------------------------
(* Dropdown: values *)

\* DropdownOption: {id, name} (the open set of extra attributes is left out)
OptionPool ==
    { [id |-> 1, name |-> "A"], [id |-> 2, name |-> "B"], [id |-> 3, name |-> "C"] }

\* the lists of length n of options with pairwise different ids
UniqueLists(n) ==
    { l \in [1..n -> OptionPool] : \A i, j \in 1..n : i # j => l[i].id # l[j].id }

OptionLists == UNION { UniqueLists(n) : n \in 0..MaxOptions }

\* placeholder = "Select an option" (the default of the destructured prop)
DefaultPlaceholder == "Select an option"

DropdownProps ==
    [ options : OptionLists,
      selectedOption : { <<>> } \cup { <<o>> : o \in OptionPool },
      placeholder : { <<>>, <<"Pick one">> },
      renderOption : BOOLEAN ]

\* the destructuring default: placeholder = "Select an option" when undefined
Placeholder(p) == IF p.placeholder = <<>> THEN DefaultPlaceholder ELSE p.placeholder[1]

-----------------------------------------------------------------------------
(* Dropdown: rendering *)

\* a mutant of ButtonLabel: the label ignores the selected option
ButtonLabelNoSelection(selectedOption, placeholder) == placeholder

\* {selectedOption ? selectedOption.name : placeholder}
ButtonLabel(selectedOption, placeholder) ==
    IF selectedOption # <<>> THEN selectedOption[1].name ELSE placeholder

\* a mutant of MenuItems: the items are listed in reverse
MenuItemsReversed(options, renderOption) ==
    [ i \in 1..Len(options) |->
        LET o == options[Len(options) + 1 - i] IN
        [ key |-> o.id,
          content |-> IF renderOption THEN <<"renderOption", o.name>> ELSE <<"text", o.name>>,
          option |-> o ] ]

\* options.map((option) => <div key={option.id} onMouseDown=...>{renderOption ? ... : option.name}</div>)
MenuItems(options, renderOption) ==
    [ i \in 1..Len(options) |->
        [ key |-> options[i].id,
          content |-> IF renderOption THEN <<"renderOption", options[i].name>>
                                      ELSE <<"text", options[i].name>>,
          option |-> options[i] ] ]

\* {isOpen && (<DropdownMenu .../>)}
MenuRendered(open) == open

\* The render of Dropdown: the toggle's label, the menu (absent, or its items),
\* and the isOpen the closures toggleDropdown / handleSelect were created with.
Render(p, open) ==
    [ label |-> ButtonLabel(p.selectedOption, Placeholder(p)),
      menu |-> IF MenuRendered(open) THEN << MenuItems(p.options, p.renderOption) >> ELSE <<>>,
      isOpen |-> open ]

-----------------------------------------------------------------------------
(* Dropdown: handlers *)

\* a mutant of toggleDropdown: the toggle only ever opens
toggleDropdownOpens(closureIsOpen) == TRUE

\* const toggleDropdown = () => setIsOpen(!isOpen): the value given to setIsOpen
toggleDropdown(closureIsOpen) == ~closureIsOpen

\* a mutant of ButtonOnBlur: the blur handler leaves the state alone
ButtonOnBlurKeeps(open) == open

\* onBlur={() => setIsOpen(false)}: the value given to setIsOpen
ButtonOnBlur(open) == FALSE

\* a mutant of ItemPreventsDefault: the press is not intercepted
ItemLetsDefault == FALSE

\* onMouseDown={(e) => { e.preventDefault(); ... }}
ItemPreventsDefault == TRUE

\* a user event record
Event(type, wasOpen, hadFocus, opt, outcome, blurred) ==
    [ type |-> type, wasOpen |-> wasOpen, hadFocus |-> hadFocus, opt |-> opt,
      outcome |-> outcome, blurred |-> blurred ]

NoEvent == Event("none", FALSE, FALSE, 0, "none", FALSE)

InitDropdown ==
    /\ props \in DropdownProps
    /\ isOpen = FALSE                       \* useState(false)
    /\ view = Render(props, FALSE)
    /\ toggleFocused = FALSE
    /\ pc = "idle"
    /\ defaultPrevented = FALSE
    /\ evCalls = <<>>
    /\ lastEvent = NoEvent
    /\ nSelect = 0
    /\ onlyToggles = TRUE

\* The user activates the toggle with the pointer.  The press gives the button
\* the focus on platforms that focus a pressed button (gainsFocus), the click
\* runs toggleDropdown of the last render, and the framework renders again.
ToggleClick(gainsFocus) ==
    /\ pc = "idle"
    /\ toggleFocused' = (toggleFocused \/ gainsFocus)
    /\ isOpen' = toggleDropdown(view.isOpen)
    /\ view' = Render(props, isOpen')
    /\ evCalls' = <<>>
    /\ lastEvent' = Event("toggle", isOpen, toggleFocused, 0, "none", FALSE)
    /\ defaultPrevented' = FALSE
    /\ UNCHANGED <<props, pc, nSelect, onlyToggles>>
    /\ UNCHANGED nvars
    /\ UNCHANGED mvars

\* The toggle button gets the focus without being activated (keyboard navigation).
ToggleFocus ==
    /\ pc = "idle"
    /\ ~toggleFocused
    /\ toggleFocused' = TRUE
    /\ UNCHANGED <<props, isOpen, view, pc, defaultPrevented, evCalls, lastEvent,
                   nSelect, onlyToggles>>
    /\ UNCHANGED nvars
    /\ UNCHANGED mvars

\* The toggle button loses the focus: onBlur={() => setIsOpen(false)}, then a render.
ToggleBlur ==
    /\ pc = "idle"
    /\ toggleFocused
    /\ toggleFocused' = FALSE
    /\ isOpen' = ButtonOnBlur(isOpen)
    /\ view' = Render(props, isOpen')
    /\ evCalls' = <<>>
    /\ lastEvent' = Event("blur", isOpen, TRUE, 0, "none", FALSE)
    /\ defaultPrevented' = FALSE
    /\ onlyToggles' = FALSE
    /\ UNCHANGED <<props, pc, nSelect>>
    /\ UNCHANGED nvars
    /\ UNCHANGED mvars

\* a mutant of handleSelectCalls: onSelect is invoked twice
handleSelectCallsTwice(option) == << option, option >>

\* handleSelect(option), its first statement: the onSelect invocations it makes
handleSelectCalls(option) == << option >>

\* The user presses the pointer on item i of the rendered menu: the mousedown
\* listener of the item runs e.preventDefault() and then handleSelect(option),
\* whose first statement calls the caller's onSelect(option).
PressOption(i) ==
    /\ pc = "idle"
    /\ view.menu # <<>>
    /\ i \in DOMAIN view.menu[1]
    /\ nSelect < MaxCalls
    /\ defaultPrevented' = ItemPreventsDefault
    /\ evCalls' = handleSelectCalls(view.menu[1][i].option)
    /\ nSelect' = nSelect + Len(evCalls')
    /\ lastEvent' = Event("press", isOpen, toggleFocused, i, "running", FALSE)
    /\ onlyToggles' = FALSE
    /\ pc' = "onSelect"
    /\ UNCHANGED <<props, isOpen, view, toggleFocused>>
    /\ UNCHANGED nvars
    /\ UNCHANGED mvars

\* The end of the dispatch of the press, with `open` the state the listener
\* left: unless the listener prevented it, the press's default action moves the
\* focus off the toggle, whose onBlur runs; then the framework renders.
FinishPress(open, outcome) ==
    LET blurs == ~defaultPrevented /\ toggleFocused IN
    /\ toggleFocused' = (toggleFocused /\ ~blurs)
    /\ isOpen' = IF blurs THEN ButtonOnBlur(open) ELSE open
    /\ view' = Render(props, isOpen')
    /\ lastEvent' = [lastEvent EXCEPT !.outcome = outcome, !.blurred = blurs]
    /\ pc' = "idle"
    /\ UNCHANGED <<props, defaultPrevented, evCalls, nSelect, onlyToggles>>
    /\ UNCHANGED nvars
    /\ UNCHANGED mvars

\* a mutant of AfterOnSelect: handleSelect leaves the menu open
AfterOnSelectKeeps(open) == open

\* handleSelect, after onSelect(option) has returned: setIsOpen(false)
AfterOnSelect(open) == FALSE

\* onSelect returns: handleSelect goes on to setIsOpen(false).
OnSelectReturns ==
    /\ pc = "onSelect"
    /\ FinishPress(AfterOnSelect(isOpen), "returned")

\* onSelect throws: the exception leaves handleSelect and the listener, and
\* setIsOpen(false) is not reached.
OnSelectThrows ==
    /\ pc = "onSelect"
    /\ FinishPress(isOpen, "threw")

\* The caller renders the Dropdown again with another selectedOption.
ParentRender(sel) ==
    /\ pc = "idle"
    /\ sel # props.selectedOption
    /\ props' = [props EXCEPT !.selectedOption = sel]
    /\ view' = Render(props', isOpen)
    /\ UNCHANGED <<isOpen, toggleFocused, pc, defaultPrevented, evCalls, lastEvent,
                   nSelect, onlyToggles>>
    /\ UNCHANGED nvars
    /\ UNCHANGED mvars

NextDropdown ==
    \/ \E f \in BOOLEAN : ToggleClick(f)
    \/ ToggleFocus
    \/ ToggleBlur
    \/ \E i \in 1..MaxOptions : PressOption(i)
    \/ OnSelectReturns
    \/ OnSelectThrows
    \/ \E sel \in { <<>> } \cup { <<o>> : o \in OptionPool } : ParentRender(sel)

-----------------------------------------------------------------------------
(* NumericInput: numbers and texts *)

\* the characters an input event's text is made of
Alphabet == { "0", "1", ".", "-", "x" }

DigitChars == << "0", "1", "2", "3", "4", "5", "6", "7", "8", "9" >>

IsDigit(c) == \E d \in 1..10 : DigitChars[d] = c

DigitValue(c) == (CHOOSE d \in 1..10 : DigitChars[d] = c) - 1

\* A JavaScript number: NaN, or (-1)^neg * m * 10^(-e), with m not a multiple
\* of 10 unless e = 0 (the sign of a zero is kept: parseFloat("-0") is -0).
NaN == [ nan |-> TRUE, neg |-> FALSE, m |-> 0, e |-> 0 ]

RECURSIVE Normalize(_, _, _)
Normalize(neg, m, e) ==
    IF e > 0 /\ m % 10 = 0 THEN Normalize(neg, m \div 10, e - 1)
    ELSE [ nan |-> FALSE, neg |-> neg, m |-> m, e |-> e ]

\* isNaN(x)
isNaN(x) == x.nan

RECURSIVE DigitsToNat(_)
DigitsToNat(ds) ==
    IF ds = <<>> THEN 0
    ELSE 10 * DigitsToNat(SubSeq(ds, 1, Len(ds) - 1)) + DigitValue(ds[Len(ds)])

RECURSIVE DigitRun(_)
\* the number of digits a text begins with
DigitRun(t) == IF t # <<>> /\ IsDigit(t[1]) THEN 1 + DigitRun(Tail(t)) ELSE 0

RECURSIVE TrimStart(_)
\* parseFloat skips leading white space
TrimStart(t) == IF t # <<>> /\ t[1] = " " THEN TrimStart(Tail(t)) ELSE t

\* parseFloat(s): the number the longest prefix of s that is a decimal literal
\* denotes (sign, digits, a point, digits), NaN when no prefix is one.  The
\* exponent part and "Infinity" need characters outside Alphabet.
parseFloat(s) ==
    LET t == TrimStart(s)
        signed == t # <<>> /\ t[1] \in { "-", "+" }
        body == IF signed THEN Tail(t) ELSE t
        n1 == DigitRun(body)
        rest == SubSeq(body, n1 + 1, Len(body))
        hasDot == rest # <<>> /\ rest[1] = "."
        n2 == IF hasDot THEN DigitRun(Tail(rest)) ELSE 0
    IN  IF n1 = 0 /\ n2 = 0 THEN NaN
        ELSE Normalize(signed /\ t[1] = "-",
                       DigitsToNat(SubSeq(body, 1, n1) \o SubSeq(rest, 2, n2 + 1)), n2)

RECURSIVE NatToText(_)
NatToText(n) ==
    IF n < 10 THEN << DigitChars[n + 1] >>
    ELSE Append(NatToText(n \div 10), DigitChars[(n % 10) + 1])

RECURSIVE Pow10(_)
Pow10(k) == IF k = 0 THEN 1 ELSE 10 * Pow10(k - 1)

RECURSIVE PadLeft(_, _)
PadLeft(t, n) == IF Len(t) >= n THEN t ELSE PadLeft(<<"0">> \o t, n)

\* value.toString(): "NaN", or the decimal form (a zero prints without its sign)
NumberToString(x) ==
    IF x.nan THEN << "N", "a", "N" >>
    ELSE LET int == NatToText(x.m \div Pow10(x.e))
             frac == IF x.e = 0 THEN <<>>
                     ELSE <<".">> \o PadLeft(NatToText(x.m % Pow10(x.e)), x.e)
         IN  (IF x.neg /\ x.m # 0 THEN <<"-">> ELSE <<>>) \o int \o frac

\* the values the caller passes as the value prop
Values == { parseFloat(<<"1">>), parseFloat(<<"-", "1", "0">>), parseFloat(<<"0", ".", "1">>), NaN }

NumericInputProps == [ value : Values, onBlur : BOOLEAN ]

\* a callback invocation
Call(cb, arg) == [ cb |-> cb, arg |-> arg ]

-----------------------------------------------------------------------------
(* NumericInput: rendering and handlers *)

\* <input value={inputValue} .../>, and the inputValue handleBlur was created with
RenderInput(text) == [ value |-> text, inputValue |-> text ]

\* a mutant of handleInputChange: onChange is called whatever the parse yields
handleInputChangeUnguarded(newValue) ==
    [ inputValue |-> newValue, calls |-> << Call("onChange", parseFloat(newValue)) >> ]

\* a mutant of handleInputChange: the state holds the parse's string form
handleInputChangeNormalizes(newValue) ==
    [ inputValue |-> IF isNaN(parseFloat(newValue)) THEN newValue
                     ELSE NumberToString(parseFloat(newValue)),
      calls |-> IF ~isNaN(parseFloat(newValue))
                THEN << Call("onChange", parseFloat(newValue)) >> ELSE <<>> ]

\* handleInputChange(e) with newValue = e.currentTarget.value: the value given
\* to setInputValue, and the callback invocations it makes
handleInputChange(newValue) ==
    [ inputValue |-> newValue,
      calls |-> IF ~isNaN(parseFloat(newValue))
                THEN << Call("onChange", parseFloat(newValue)) >> ELSE <<>> ]

\* a mutant of handleBlur: the value prop is reported, not the typed text
handleBlurOfProp(p, closureInputValue) ==
    IF p.onBlur THEN << Call("onBlur", p.value) >> ELSE <<>>

\* a mutant of handleBlur: onBlur is called without the check that it was supplied
handleBlurUnguarded(p, closureInputValue) ==
    << Call("onBlur", parseFloat(closureInputValue)) >>

\* handleBlur(): the callback invocations it makes
handleBlur(p, closureInputValue) ==
    IF p.onBlur THEN << Call("onBlur", parseFloat(closureInputValue)) >> ELSE <<>>

\* a user event record: its type, the text of the most recent keystroke, and
\* whether there was a keystroke yet
InputEvent(type, text, typed) == [ type |-> type, text |-> text, typed |-> typed ]

InitNumericInput ==
    /\ inProps \in NumericInputProps
    /\ inputValue = NumberToString(inProps.value)      \* useState(value.toString())
    /\ inView = RenderInput(inputValue)
    /\ inputFocused = FALSE
    /\ inCalls = <<>>
    /\ inLast = InputEvent("none", <<>>, FALSE)

\* The input gets the focus.
InputFocus ==
    /\ ~inputFocused
    /\ inputFocused' = TRUE
    /\ UNCHANGED <<inProps, inputValue, inView, inCalls, inLast>>
    /\ UNCHANGED dvars
    /\ UNCHANGED mvars

\* An input event whose e.currentTarget.value is s: handleInputChange, then a render.
InputEventWith(s) ==
    LET r == handleInputChange(s) IN
    /\ inputFocused
    /\ inputValue' = r.inputValue
    /\ inCalls' = r.calls
    /\ inView' = RenderInput(inputValue')
    /\ inLast' = InputEvent("input", s, TRUE)
    /\ UNCHANGED <<inProps, inputFocused>>
    /\ UNCHANGED dvars
    /\ UNCHANGED mvars

\* A keystroke adds character c at the end of the displayed text.
InputType(c) ==
    /\ Len(inView.value) < MaxLen
    /\ InputEventWith(Append(inView.value, c))

\* A keystroke deletes the last character of the displayed text.
InputDelete ==
    /\ inView.value # <<>>
    /\ InputEventWith(SubSeq(inView.value, 1, Len(inView.value) - 1))

\* The input loses the focus: handleBlur of the last render.
InputBlur ==
    /\ inputFocused
    /\ inputFocused' = FALSE
    /\ inCalls' = handleBlur(inProps, inView.inputValue)
    /\ inLast' = InputEvent("blur", inLast.text, inLast.typed)
    /\ UNCHANGED <<inProps, inputValue, inView>>
    /\ UNCHANGED dvars
    /\ UNCHANGED mvars

\* The caller renders the NumericInput again with another value prop:
\* useState keeps the state it has, its argument is read at the first render only.
InputParentRender(v) ==
    /\ v # inProps.value
    /\ inProps' = [inProps EXCEPT !.value = v]
    /\ inView' = RenderInput(inputValue)
    /\ UNCHANGED <<inputValue, inputFocused, inCalls, inLast>>
    /\ UNCHANGED dvars
    /\ UNCHANGED mvars

NextNumericInput ==
    \/ InputFocus
    \/ \E c \in Alphabet : InputType(c)
    \/ InputDelete
    \/ InputBlur
    \/ \E v \in Values : InputParentRender(v)

-----------------------------------------------------------------------------
(* Several instances on one page: two Dropdowns and two NumericInputs *)

Instances == { 1, 2 }

\* a mutant of DropdownCell: the open flag is one cell shared by the instances
DropdownCellShared(i) == 1

\* const [isOpen, setIsOpen] = useState(false): the cell of instance i
DropdownCell(i) == i

\* a mutant of InputCell: the text is one cell shared by the instances
InputCellShared(i) == 1

\* const [inputValue, setInputValue] = useState(value.toString()): the cell of instance i
InputCell(i) == i

\* the open flag and the text state of instance i
InstanceOpen(i) == mOpen[DropdownCell(i)]
InstanceText(i) == mText[InputCell(i)]

\* the props of the instances: both Dropdowns get the same options list, both
\* NumericInputs the same value, and only the first an onBlur callback
InstanceOptions(i) == << [id |-> 1, name |-> "A"], [id |-> 2, name |-> "B"] >>
InstanceInputProps(i) == [ value |-> parseFloat(<< "1" >>), onBlur |-> (i = 1) ]

\* the characters typed into the instances
InstanceAlphabet == { "1", "x" }

Element(kind, i) == << [ kind |-> kind, inst |-> i ] >>

InstanceEvent(kind, type, i) == [ kind |-> kind, type |-> type, inst |-> i ]

\* the invocations `calls` as made by instance i, with the callbacks of its props
CallsOf(i, cb, args) == [ k \in DOMAIN args |-> [ inst |-> i, cb |-> cb, arg |-> args[k] ] ]

InitInstances ==
    /\ mOpen = [ c \in Instances |-> FALSE ]
    /\ mText = [ c \in Instances |-> NumberToString(InstanceInputProps(c).value) ]
    /\ mFocus = <<>>
    /\ mCalls = <<>>
    /\ mLast = InstanceEvent("none", "none", 0)

\* The toggle of Dropdown i is activated; where the press focuses the button,
\* the element that had the focus has lost it in an event of its own before.
InstanceToggleClick(i, gainsFocus) ==
    /\ gainsFocus => mFocus \in { <<>>, Element("toggle", i) }
    /\ mFocus' = IF gainsFocus THEN Element("toggle", i) ELSE mFocus
    /\ mOpen' = [mOpen EXCEPT ![DropdownCell(i)] = toggleDropdown(InstanceOpen(i))]
    /\ mCalls' = <<>>
    /\ mLast' = InstanceEvent("dropdown", "toggle", i)
    /\ UNCHANGED mText

\* The toggle of Dropdown i gets the focus from the keyboard.
InstanceToggleFocus(i) ==
    /\ mFocus = <<>>
    /\ mFocus' = Element("toggle", i)
    /\ mCalls' = <<>>
    /\ mLast' = InstanceEvent("dropdown", "focus", i)
    /\ UNCHANGED <<mOpen, mText>>

\* The toggle of Dropdown i loses the focus.
InstanceToggleBlur(i) ==
    /\ mFocus = Element("toggle", i)
    /\ mFocus' = <<>>
    /\ mOpen' = [mOpen EXCEPT ![DropdownCell(i)] = ButtonOnBlur(InstanceOpen(i))]
    /\ mCalls' = <<>>
    /\ mLast' = InstanceEvent("dropdown", "blur", i)
    /\ UNCHANGED mText

\* The pointer is pressed on item k of the menu of Dropdown i, and onSelect
\* returns or throws.  The listener prevents the press's default action, so
\* the focused element, whichever it is, keeps the focus.
InstancePressOption(i, k, returns) ==
    /\ MenuRendered(InstanceOpen(i))
    /\ k \in DOMAIN InstanceOptions(i)
    /\ ItemPreventsDefault
    /\ mCalls' = CallsOf(i, "onSelect", handleSelectCalls(InstanceOptions(i)[k]))
    /\ mOpen' = [mOpen EXCEPT ![DropdownCell(i)] =
                    IF returns THEN AfterOnSelect(InstanceOpen(i)) ELSE InstanceOpen(i)]
    /\ mLast' = InstanceEvent("dropdown", "press", i)
    /\ UNCHANGED <<mText, mFocus>>

\* NumericInput i gets the focus.
InstanceInputFocus(i) ==
    /\ mFocus = <<>>
    /\ mFocus' = Element("input", i)
    /\ mCalls' = <<>>
    /\ mLast' = InstanceEvent("input", "focus", i)
    /\ UNCHANGED <<mOpen, mText>>

\* An input event on NumericInput i whose e.currentTarget.value is s.
InstanceInputEvent(i, s) ==
    LET r == handleInputChange(s) IN
    /\ mFocus = Element("input", i)
    /\ mText' = [mText EXCEPT ![InputCell(i)] = r.inputValue]
    /\ mCalls' = CallsOf(i, "onChange", [ k \in DOMAIN r.calls |-> r.calls[k].arg ])
    /\ mLast' = InstanceEvent("input", "input", i)
    /\ UNCHANGED <<mOpen, mFocus>>

\* A keystroke adds character c at the end of the text of NumericInput i.
InstanceInputType(i, c) ==
    /\ Len(InstanceText(i)) < MaxLen
    /\ InstanceInputEvent(i, Append(InstanceText(i), c))

\* A keystroke deletes the last character of the text of NumericInput i.
InstanceInputDelete(i) ==
    /\ InstanceText(i) # <<>>
    /\ InstanceInputEvent(i, SubSeq(InstanceText(i), 1, Len(InstanceText(i)) - 1))

\* NumericInput i loses the focus.
InstanceInputBlur(i) ==
    LET calls == handleBlur(InstanceInputProps(i), InstanceText(i)) IN
    /\ mFocus = Element("input", i)
    /\ mFocus' = <<>>
    /\ mCalls' = CallsOf(i, "onBlur", [ k \in DOMAIN calls |-> calls[k].arg ])
    /\ mLast' = InstanceEvent("input", "blur", i)
    /\ UNCHANGED <<mOpen, mText>>

NextInstances ==
    \/ \E i \in Instances, f \in BOOLEAN : InstanceToggleClick(i, f) /\ UNCHANGED <<dvars, nvars>>
    \/ \E i \in Instances : InstanceToggleFocus(i) /\ UNCHANGED <<dvars, nvars>>
    \/ \E i \in Instances : InstanceToggleBlur(i) /\ UNCHANGED <<dvars, nvars>>
    \/ \E i \in Instances, k \in 1..MaxOptions, b \in BOOLEAN :
          InstancePressOption(i, k, b) /\ UNCHANGED <<dvars, nvars>>
    \/ \E i \in Instances : InstanceInputFocus(i) /\ UNCHANGED <<dvars, nvars>>
    \/ \E i \in Instances, c \in InstanceAlphabet :
          InstanceInputType(i, c) /\ UNCHANGED <<dvars, nvars>>
    \/ \E i \in Instances : InstanceInputDelete(i) /\ UNCHANGED <<dvars, nvars>>
    \/ \E i \in Instances : InstanceInputBlur(i) /\ UNCHANGED <<dvars, nvars>>

-----------------------------------------------------------------------------
(* Specifications *)

\* one Dropdown, with the NumericInput left as first rendered
InitD ==
    /\ InitDropdown
    /\ InitNumericInput
    /\ inProps = [ value |-> parseFloat(<<"1">>), onBlur |-> TRUE ]
    /\ InitInstances

SpecDropdown == InitD /\ [][NextDropdown]_vars

\* one NumericInput, with the Dropdown left as first rendered
InitN ==
    /\ InitNumericInput
    /\ InitDropdown
    /\ props = [ options |-> <<>>, selectedOption |-> <<>>, placeholder |-> <<>>,
                 renderOption |-> FALSE ]
    /\ InitInstances

SpecNumericInput == InitN /\ [][NextNumericInput]_vars

\* two Dropdowns and two NumericInputs on one page
InitI ==
    /\ InitInstances
    /\ InitDropdown
    /\ props = [ options |-> <<>>, selectedOption |-> <<>>, placeholder |-> <<>>,
                 renderOption |-> FALSE ]
    /\ InitNumericInput
    /\ inProps = [ value |-> parseFloat(<<"1">>), onBlur |-> TRUE ]

SpecInstances == InitI /\ [][NextInstances]_vars

-----------------------------------------------------------------------------
(* Dropdown: claims *)

\* the option of the item the most recent press was on
PressedOption == props.options[lastEvent.opt]

PressDone == lastEvent.type = "press" /\ pc = "idle"

\* C1: selecting option O from an open Dropdown invokes onSelect exactly once,
\* with O, and the Dropdown is Closed afterwards; while the onSelect call runs
\* the close has not been committed yet.
C1_SelectOnceThenClosed ==
    /\ pc = "onSelect" => (isOpen /\ evCalls = << PressedOption >>)
    /\ PressDone => (evCalls = << PressedOption >> /\ ~isOpen)

\* C2: after a selection the Dropdown is Closed, whether the onSelect callback
\* returned or threw.
C2_ClosedWhateverOutcome ==
    PressDone => (lastEvent.outcome \in { "returned", "threw" } /\ ~isOpen /\ view.menu = <<>>)

\* C3: a press on a menu option of an open Dropdown whose toggle has the focus
\* is intercepted: the select handler runs with the menu still rendered and
\* onSelect gets the pressed option; the press causes no focus loss of the
\* toggle, so that no blur-close comes with the selection.
C3_SelectionWinsOverBlur ==
    /\ pc = "onSelect" =>
          (view.menu # <<>> /\ evCalls = << PressedOption >> /\ ~lastEvent.blurred)
    /\ (PressDone /\ lastEvent.hadFocus) =>
          (evCalls = << PressedOption >> /\ ~lastEvent.blurred /\ toggleFocused)

C3_Witness ==
    /\ PressDone /\ lastEvent.hadFocus /\ lastEvent.wasOpen
    /\ lastEvent.outcome = "returned"
    /\ lastEvent.opt = 2
    /\ evCalls = << props.options[2] >>

\* C4: a Dropdown starts Closed; an activation of the toggle while Closed makes
\* it Open, and one while Open makes it Closed; an activation of the toggle
\* invokes no onSelect, and as long as every event was one, onSelect was never
\* invoked.
C4_ToggleAlternates ==
    /\ lastEvent.type = "none" => (~isOpen /\ view.menu = <<>>)
    /\ lastEvent.type = "toggle" => (isOpen = ~lastEvent.wasOpen /\ evCalls = <<>>)
    /\ onlyToggles => nSelect = 0

C4_Witness ==
    /\ lastEvent.type = "toggle" /\ lastEvent.wasOpen /\ ~isOpen
    /\ onlyToggles /\ nSelect = 0

\* C5: after the toggle button lost the focus the Dropdown is Closed, whether
\* it was Open or Closed before, and the event invoked no onSelect.
C5_BlurCloses ==
    lastEvent.type = "blur" => (~isOpen /\ view.menu = <<>> /\ evCalls = <<>>)

C5_Witness == lastEvent.type = "blur" /\ lastEvent.wasOpen /\ ~isOpen

\* C9: the menu is rendered exactly when the state is Open, and the toggle's
\* label is the name of the selected option when one is supplied, else the
\* placeholder, which is "Select an option" when none is supplied.
C9_ViewMatchesState ==
    /\ (view.menu # <<>>) <=> isOpen
    /\ props.selectedOption # <<>> => view.label = props.selectedOption[1].name
    /\ (props.selectedOption = <<>> /\ props.placeholder # <<>>) =>
          view.label = props.placeholder[1]
    /\ (props.selectedOption = <<>> /\ props.placeholder = <<>>) =>
          view.label = "Select an option"

C9_Witness ==
    /\ isOpen /\ view.menu # <<>>
    /\ props.selectedOption = <<>> /\ props.placeholder = <<>>
    /\ view.label = "Select an option"
    /\ lastEvent.type = "toggle"

\* the options the items of the rendered menu stand for, in order
MenuOptions == [ i \in DOMAIN view.menu[1] |-> view.menu[1][i].option ]

\* C10: while the Dropdown is Open its menu lists the options of the supplied
\* list, once each, in the order supplied; and no step changes the supplied
\* options list.
C10_MenuListsOptions ==
    /\ [](isOpen => (view.menu # <<>> /\ MenuOptions = props.options))
    /\ [][props'.options = props.options]_vars

C10_Witness ==
    /\ isOpen /\ view.menu # <<>>
    /\ Len(props.options) = 2
    /\ MenuOptions = props.options
    /\ nSelect > 0

-----------------------------------------------------------------------------
(* Dropdown: claims on event sequences *)

\* C13: between events the Dropdown is Open exactly when the most recent
\* event was an activation of the toggle made while it was Closed.
C13_OpenIffToggledFromClosed ==
    pc = "idle" => (isOpen <=> (lastEvent.type = "toggle" /\ ~lastEvent.wasOpen))

\* a step in which the pointer is pressed on a menu item
PressStep == pc = "idle" /\ pc' = "onSelect"

\* C14: onSelect is invoked only by a press on an item of the menu of an Open
\* Dropdown, once for each press, and only with an element of the supplied
\* options list: the count of invocations grows by one in a press and in no
\* other step.
C14_SelectOnlyByPress ==
    /\ [](\A k \in DOMAIN evCalls : \E j \in DOMAIN props.options : evCalls[k] = props.options[j])
    /\ [][/\ PressStep =>
                /\ isOpen /\ view.menu # <<>>
                /\ lastEvent'.opt \in DOMAIN props.options
                /\ evCalls' = << props.options[lastEvent'.opt] >>
                /\ nSelect' = nSelect + 1
          /\ ~PressStep => (nSelect' = nSelect /\ evCalls' \in { evCalls, <<>> })]_vars

C14_Witness ==
    /\ nSelect = 2 /\ pc = "idle"
    /\ lastEvent.type = "press" /\ lastEvent.outcome = "threw"
    /\ lastEvent.opt = 2
    /\ evCalls = << props.options[2] >>

-----------------------------------------------------------------------------
(* NumericInput: claims *)

\* the numbers 1, 1.1 and -0.1
One == [ nan |-> FALSE, neg |-> FALSE, m |-> 1, e |-> 0 ]
OnePointOne == [ nan |-> FALSE, neg |-> FALSE, m |-> 11, e |-> 1 ]
MinusPointOne == [ nan |-> FALSE, neg |-> TRUE, m |-> 1, e |-> 1 ]

\* some texts that begin with no decimal literal
NoNumberTexts ==
    { <<>>, << "-" >>, << "." >>, << "x" >>, << "x", "1" >>, << "-", "." >>, << "-", "-", "1" >>,
      << ".", "x", "1" >> }

\* C6: after an input event whose text s parses to a number n, onChange was
\* invoked exactly once for that event, with n, and the text state and the
\* displayed text are s verbatim.
C6_ChangeOnParse ==
    (inLast.type = "input" /\ ~isNaN(parseFloat(inLast.text))) =>
        /\ inCalls = << Call("onChange", parseFloat(inLast.text)) >>
        /\ inputValue = inLast.text
        /\ inView.value = inLast.text
        /\ inLast.text = << "1", "x" >> => inCalls = << Call("onChange", One) >>
        /\ inLast.text = << "1", ".", "1" >> => inCalls = << Call("onChange", OnePointOne) >>
        /\ inLast.text = << "-", ".", "1" >> => inCalls = << Call("onChange", MinusPointOne) >>

C6_Witness ==
    /\ inLast.type = "input"
    /\ inLast.text = << "1", ".", "0" >>
    /\ inputValue = << "1", ".", "0" >>
    /\ inCalls = << Call("onChange", One) >>

\* C7: after an input event whose text s has no numeric prefix no callback was
\* invoked, and the text state and the displayed text are s; onChange is never
\* invoked with NaN.
C7_NoChangeOnInvalid ==
    /\ (inLast.type = "input" /\ isNaN(parseFloat(inLast.text))) =>
          (inCalls = <<>> /\ inputValue = inLast.text /\ inView.value = inLast.text)
    /\ (inLast.type = "input" /\ inLast.text \in NoNumberTexts) =>
          (inCalls = <<>> /\ inputValue = inLast.text)
    /\ \A i \in DOMAIN inCalls : inCalls[i].cb = "onChange" => ~isNaN(inCalls[i].arg)

C7_Witness ==
    /\ inLast.type = "input"
    /\ inLast.text = << "-" >>
    /\ inputValue = << "-" >>
    /\ inCalls = <<>>

\* C8: a blur of a NumericInput that was given an onBlur callback invokes it
\* exactly once, with the parse of the displayed text, which after a keystroke
\* is the text of the most recent keystroke.
C8_BlurReportsDisplayed ==
    (inLast.type = "blur" /\ inProps.onBlur) =>
        /\ inCalls = << Call("onBlur", parseFloat(inView.value)) >>
        /\ inLast.typed => inCalls = << Call("onBlur", parseFloat(inLast.text)) >>

C8_Witness ==
    /\ inLast.type = "blur" /\ inProps.onBlur /\ inLast.typed
    /\ inLast.text = << "1", ".", "1" >>
    /\ inProps.value = One
    /\ inCalls = << Call("onBlur", OnePointOne) >>

\* the same after a text with no numeric prefix: onBlur gets NaN
C8_WitnessNaN ==
    /\ inLast.type = "blur" /\ inProps.onBlur /\ inLast.typed
    /\ inLast.text = << "x" >>
    /\ inCalls = << Call("onBlur", NaN) >>

\* a step in which the input loses the focus
InputBlurStep == inputFocused /\ ~inputFocused'

\* C11: a focus loss on NumericInput leaves the text state and the displayed
\* text as they were and invokes no onChange; when no onBlur callback was
\* supplied it invokes no callback at all.
C11_BlurFrame ==
    [][InputBlurStep =>
          /\ inputValue' = inputValue
          /\ inView'.value = inView.value
          /\ \A i \in DOMAIN inCalls' : inCalls'[i].cb # "onChange"
          /\ ~inProps.onBlur => inCalls' = <<>>]_vars

C11_Witness ==
    /\ inLast.type = "blur" /\ ~inProps.onBlur /\ inLast.typed
    /\ inputValue = << "1", ".", "1" >>
    /\ inCalls = <<>>

\* a step that is an input event (two successive input events differ in text)
KeystrokeStep == inLast'.type = "input" /\ inLast' # inLast

\* C12: the text state starts as the string form of the value prop of the
\* first render; only an input event changes it; and once there was a
\* keystroke it is the text of the most recent keystroke verbatim, whatever
\* that text parses to and whatever the value prop has become.
C12_TextIsLastKeystroke ==
    /\ inputValue = NumberToString(inProps.value)
    /\ inProps.value = One => inputValue = << "1" >>
    /\ inProps.value = NaN => inputValue = << "N", "a", "N" >>
    /\ inProps.value = parseFloat(<< "0", ".", "1" >>) => inputValue = << "0", ".", "1" >>
    /\ [](inLast.typed => (inputValue = inLast.text /\ inView.value = inLast.text))
    /\ [][~KeystrokeStep => inputValue' = inputValue]_vars

C12_Witness ==
    /\ inLast.typed
    /\ inLast.text = << "1", ".", "0" >>
    /\ inputValue = << "1", ".", "0" >>
    /\ inProps.value = NaN
    /\ inLast.type = "blur"

-----------------------------------------------------------------------------
(* Instances: claims *)

\* C15: an event on one instance leaves the open flag of every other Dropdown
\* and the text state of every other NumericInput as it was (an event on a
\* Dropdown changes no text state, one on a NumericInput no open flag), and
\* every callback it invokes was supplied to the instance the event was on.
C15_InstancesShareNoState ==
    [][/\ \A j \in Instances :
             /\ (mLast'.kind # "dropdown" \/ mLast'.inst # j) =>
                   InstanceOpen(j)' = InstanceOpen(j)
             /\ (mLast'.kind # "input" \/ mLast'.inst # j) =>
                   InstanceText(j)' = InstanceText(j)
       /\ \A k \in DOMAIN mCalls' : mCalls'[k].inst = mLast'.inst]_vars

C15_Witness ==
    /\ InstanceOpen(1) /\ ~InstanceOpen(2)
    /\ mLast = InstanceEvent("dropdown", "press", 2)
    /\ mCalls # <<>>
    /\ InstanceText(1) = << "1", "x" >>
    /\ InstanceText(2) = << "x" >>

====
